---- MODULE Spec2Model ----
(***************************************************************************)
(* ProcessingBook (src/processing_book.py): a 36-way trie of nested books  *)
(* keyed by the successive characters of a transaction's signature.        *)
(* A book is a record; a page holds None, a (transaction, amount) tuple or *)
(* a nested book.  Transactions are compared by identity (`is`), modelled  *)
(* by the transaction's id.                                                *)
(*                                                                         *)
(* ProcessingLine (src/processing_line.py): the transactions added around  *)
(* a critical transaction, kept on two stacks and handed out by a single   *)
(* iterator that signs each transaction as it returns it.                  *)
(*                                                                         *)
(* Transaction.sign (src/processing_line.py): the rolling hash of the      *)
(* fields in exact integer arithmetic, written in base 36.                 *)
(*                                                                         *)
(* FraudDetection (src/fraud_detection.py): detect_by_blocks and rectify   *)
(* as functions of the transactions handed over.                           *)
(***************************************************************************)
EXTENDS Integers, Sequences, FiniteSets, TLC

VARIABLES book, steps,
          critical, line, iterator, signatures, additions, yielded, raised,
          transactions, functions, result

\* the book and the number of calls made on it
bookVars == <<book, steps>>

\* the processing line, its client's references and what the client saw
lineVars == <<critical, line, iterator, signatures, additions, yielded, raised>>

\* the transactions handed to FraudDetection or signed by the client, the
\* hash functions handed to rectify, and what the call returned
fraudVars == <<transactions, functions, result>>

vars == <<bookVars, lineVars, fraudVars>>

----------------------------------------------------------------------------
(* Bounds of the model *)

\* length of every signature handed to the book
SigLen == 3
\* amounts are drawn from 0..MaxAmount
MaxAmount == 1
\* number of calls made on the book
MaxSteps == 5
\* number of transactions added to a processing line
MaxAdds == 3
\* timestamps are drawn from 1..MaxTime
MaxTime == 3
\* number of transactions handed to FraudDetection
MaxSuspects == 5
\* length of the signatures handed to detect_by_blocks
BlockSigLen == 2
\* number of transactions handed to FraudDetection for rectify
MaxHashed == 3
\* the hash functions handed to rectify return values in 0..MaxHash
MaxHash == 2

----------------------------------------------------------------------------
(* Inputs: the transactions handed to the book *)

Rep(c, n) == [i \in 1..n |-> c]

\* five distinct transaction objects; 5 carries the same signature as 1.
\* With SigLen = 3 the signatures are aab, aa0, aaz, a0b and aab.
Transactions == 1..5

Amounts == 0..MaxAmount

\* transaction.signature, a sequence of one-character strings
signature(transaction) ==
    CASE transaction = 1 -> Rep("a", SigLen - 1) \o <<"b">>
      [] transaction = 2 -> Rep("a", SigLen - 1) \o <<"0">>
      [] transaction = 3 -> Rep("a", SigLen - 1) \o <<"z">>
      [] transaction = 4 -> <<"a">> \o Rep("0", SigLen - 2) \o <<"b">>
      [] transaction = 5 -> Rep("a", SigLen - 1) \o <<"b">>

----------------------------------------------------------------------------
(* Python values *)

PyNone == [t |-> "None", b |-> FALSE, n |-> 0]
PyBool(x) == [t |-> "bool", b |-> x, n |-> 0]
PyInt(x) == [t |-> "int", b |-> FALSE, n |-> x]
PyStr(x) == [t |-> "str", b |-> FALSE, n |-> 0, s |-> x]

\* truth value of an object in `if added:`
Truthy(x) == IF x.t = "bool" THEN x.b ELSE IF x.t = "int" THEN x.n # 0 ELSE FALSE

----------------------------------------------------------------------------
(* ProcessingBook *)

LEGAL_CHARACTERS ==
    << "a", "b", "c", "d", "e", "f", "g", "h", "i", "j", "k", "l", "m",
       "n", "o", "p", "q", "r", "s", "t", "u", "v", "w", "x", "y", "z",
       "0", "1", "2", "3", "4", "5", "6", "7", "8", "9" >>

PageRange == 0 .. (Len(LEGAL_CHARACTERS) - 1)

None == [kind |-> "None"]

Tuple(transaction, amount) == [kind |-> "tuple", tr |-> transaction, amt |-> amount]

\* __init__
ProcessingBook(level) ==
    [kind |-> "ProcessingBook", level |-> level,
     pages |-> [i \in PageRange |-> None],
     total_count |-> 0, error_count |-> 0]

RECURSIVE StrIndex(_, _, _)
\* str.index: scan from position i for the first occurrence of the character
StrIndex(str, character, i) ==
    IF str[i + 1] = character THEN i ELSE StrIndex(str, character, i + 1)

\* LEGAL_CHARACTERS.index(character), for every legal character
LegalIndex ==
    [character \in {LEGAL_CHARACTERS[i] : i \in 1..Len(LEGAL_CHARACTERS)} |->
        StrIndex(LEGAL_CHARACTERS, character, 0)]

\* page_index
page_index(character) == LegalIndex[character]

\* sig[self.level] raises IndexError when the level is past the signature
SigIndexError(self, transaction) == self.level >= Len(signature(transaction))

SigChar(self, transaction) == signature(transaction)[self.level + 1]

\* outcome of a call: the book afterwards, the exception raised ("none" if
\* the call returned), the returned value and the deepest level entered
Outcome(b, exc, ret, deepest) == [book |-> b, exc |-> exc, ret |-> ret, deepest |-> deepest]

Max(a, b) == IF a >= b THEN a ELSE b

\* __setitem__, page is None
SetEmpty(self, idx, transaction, amount) ==
    Outcome([self EXCEPT !.pages[idx] = Tuple(transaction, amount),
                         !.total_count = @ + 1],
            "none", PyBool(TRUE), self.level)

\* variant of SetExisting: a different amount replaces the stored one
SetExistingOverwrite(self, page, amount) ==
    Outcome(IF page.amt # amount
              THEN [self EXCEPT !.error_count = @ + 1,
                                !.pages = [i \in PageRange |->
                                             IF self.pages[i] = page
                                             THEN Tuple(page.tr, amount)
                                             ELSE self.pages[i]]]
              ELSE self,
            "none", PyBool(FALSE), self.level)

\* __setitem__, page is the tuple of this very transaction
SetExisting(self, page, amount) ==
    Outcome(IF page.amt # amount
              THEN [self EXCEPT !.error_count = @ + 1]
              ELSE self,
            "none", PyBool(FALSE), self.level)

\* variant of SetCollision: the new book is attached before the second
\* insertion into it, so it stays attached when that insertion raises
SetCollisionAttachesFirst(self, idx, r1, r2) ==
    IF r1.exc # "none" THEN Outcome(self, r1.exc, PyNone, r1.deepest)
    ELSE IF r2.exc # "none"
         THEN Outcome([self EXCEPT !.pages[idx] = r1.book], r2.exc, PyNone,
                      Max(r1.deepest, r2.deepest))
    ELSE Outcome([self EXCEPT !.pages[idx] = r2.book, !.total_count = @ + 1],
                 "none", PyBool(TRUE), Max(r1.deepest, r2.deepest))

\* __setitem__, collision: the new book replaces the tuple once both
\* insertions into it returned; an exception leaves self as it was
SetCollision(self, idx, r1, r2) ==
    IF r1.exc # "none" THEN Outcome(self, r1.exc, PyNone, r1.deepest)
    ELSE IF r2.exc # "none" THEN Outcome(self, r2.exc, PyNone, Max(r1.deepest, r2.deepest))
    ELSE Outcome([self EXCEPT !.pages[idx] = r2.book, !.total_count = @ + 1],
                 "none", PyBool(TRUE), Max(r1.deepest, r2.deepest))

\* __setitem__, page is a nested book:  added = page[transaction] = amount
\* binds added to amount and then stores into the nested book
SetNested(self, idx, r, amount) ==
    LET added == PyInt(amount) IN
    IF r.exc # "none" THEN Outcome(self, r.exc, PyNone, r.deepest)
    ELSE Outcome([self EXCEPT !.pages[idx] = r.book,
                              !.total_count = IF Truthy(added) THEN @ + 1 ELSE @],
                 "none", added, r.deepest)

RECURSIVE SetItem(_, _, _)

\* variant of Reinsert: the displaced transaction is stored again with the
\* amount of the call instead of its own
ReinsertWithNewAmount(new_book, page, amount) ==
    SetItem(new_book, page.tr, amount)

\* __setitem__, collision: `new_book[tr] = amt` stores the displaced tuple
\* again, with its own amount, in the new book
Reinsert(new_book, page, amount) ==
    SetItem(new_book, page.tr, page.amt)

\* __setitem__
SetItem(self, transaction, amount) ==
    IF SigIndexError(self, transaction)
    THEN Outcome(self, "IndexError", PyNone, self.level)
    ELSE
      LET idx == page_index(SigChar(self, transaction))
          page == self.pages[idx]
      IN CASE page.kind = "None" -> SetEmpty(self, idx, transaction, amount)
           [] page.kind = "tuple" ->
                IF page.tr = transaction
                THEN SetExisting(self, page, amount)
                ELSE LET new_book == ProcessingBook(self.level + 1)
                         r1 == Reinsert(new_book, page, amount)
                         r2 == SetItem(r1.book, transaction, amount)
                     IN SetCollision(self, idx, r1, r2)
           [] page.kind = "ProcessingBook" ->
                SetNested(self, idx, SetItem(page, transaction, amount), amount)

\* variant of GetTuple: the stored transaction is compared by its signature
\* (==) instead of by identity (is)
GetTupleBySignature(self, page, transaction) ==
    IF signature(page.tr) = signature(transaction)
    THEN Outcome(self, "none", PyInt(page.amt), self.level)
    ELSE Outcome(self, "KeyError", PyNone, self.level)

\* variant of GetTuple: a read that ends at the tuple of another transaction
\* is counted in error_count
GetTupleCountsMiss(self, page, transaction) ==
    IF page.tr = transaction
    THEN Outcome(self, "none", PyInt(page.amt), self.level)
    ELSE Outcome([self EXCEPT !.error_count = @ + 1], "KeyError", PyNone, self.level)

\* __getitem__, page is a tuple: `tr is transaction` compares identities
GetTuple(self, page, transaction) ==
    IF page.tr = transaction
    THEN Outcome(self, "none", PyInt(page.amt), self.level)
    ELSE Outcome(self, "KeyError", PyNone, self.level)

RECURSIVE GetItem(_, _)
\* __getitem__
GetItem(self, transaction) ==
    IF SigIndexError(self, transaction)
    THEN Outcome(self, "IndexError", PyNone, self.level)
    ELSE
      LET idx == page_index(SigChar(self, transaction))
          page == self.pages[idx]
      IN CASE page.kind = "None" -> Outcome(self, "KeyError", PyNone, self.level)
           [] page.kind = "tuple" -> GetTuple(self, page, transaction)
           [] page.kind = "ProcessingBook" ->
                LET r == GetItem(page, transaction)
                IN Outcome(self, r.exc, r.ret, r.deepest)

\* variant of DelTuple: the page is cleared, total_count is not counted down
DelTupleKeepsCount(self, idx) ==
    Outcome([self EXCEPT !.pages[idx] = None], "none", PyNone, self.level)

\* __delitem__, page is the tuple of this very transaction
DelTuple(self, idx) ==
    Outcome([self EXCEPT !.pages[idx] = None, !.total_count = @ - 1],
            "none", PyNone, self.level)

RECURSIVE FirstPage(_, _)
\* __delitem__, the scan of the nested book from page i for its first page
\* that is not None; the nested book stays in place when every page is None
FirstPage(page, i) ==
    IF i \notin PageRange THEN page
    ELSE IF page.pages[i] # None THEN page.pages[i]
    ELSE FirstPage(page, i + 1)

\* variant of DelNested: total_count is counted down before the nested
\* delete is attempted, so a KeyError from below leaves it one too low
DelNestedCountsFirst(self, idx, r) ==
    IF r.exc # "none"
    THEN Outcome([self EXCEPT !.total_count = @ - 1], r.exc, PyNone, r.deepest)
    ELSE LET page == r.book
         IN Outcome([self EXCEPT !.pages[idx] = IF page.total_count = 1
                                                  THEN FirstPage(page, 0)
                                                  ELSE page,
                                  !.total_count = @ - 1],
                    "none", PyNone, r.deepest)

\* __delitem__, after the nested delete returned: count down, then collapse
\* a nested book whose total_count is 1
DelNested(self, idx, r) ==
    IF r.exc # "none" THEN Outcome(self, r.exc, PyNone, r.deepest)
    ELSE LET page == r.book
         IN Outcome([self EXCEPT !.pages[idx] = IF page.total_count = 1
                                                  THEN FirstPage(page, 0)
                                                  ELSE page,
                                  !.total_count = @ - 1],
                    "none", PyNone, r.deepest)

RECURSIVE DelItem(_, _)
\* __delitem__
DelItem(self, transaction) ==
    IF SigIndexError(self, transaction)
    THEN Outcome(self, "IndexError", PyNone, self.level)
    ELSE
      LET idx == page_index(SigChar(self, transaction))
          page == self.pages[idx]
      IN CASE page.kind = "None" -> Outcome(self, "KeyError", PyNone, self.level)
           [] page.kind = "tuple" ->
                IF page.tr = transaction
                THEN DelTuple(self, idx)
                ELSE Outcome(self, "KeyError", PyNone, self.level)
           [] page.kind = "ProcessingBook" ->
                DelNested(self, idx, DelItem(page, transaction))

\* __len__
BookLen(self) == self.total_count

RECURSIVE IterFrom(_, _)
\* __iter__, the pages from position i of LEGAL_CHARACTERS on
IterFrom(self, i) ==
    IF i > Len(LEGAL_CHARACTERS) THEN << >>
    ELSE LET idx == page_index(LEGAL_CHARACTERS[i])
             page == self.pages[idx]
         IN (CASE page.kind = "None" -> << >>
               [] page.kind = "tuple" -> << page >>
               [] page.kind = "ProcessingBook" -> IterFrom(page, 1))
            \o IterFrom(self, i + 1)

\* __iter__
Iterate(self) == IterFrom(self, 1)

\* get_error_count, the pages that hold a nested book
BookPages(self) == {i \in PageRange : self.pages[i].kind = "ProcessingBook"}

RECURSIVE ErrSum(_, _)
RECURSIVE get_error_count(_)
\* get_error_count, the loop adding up the nested books on the pages in S
ErrSum(self, S) ==
    IF S = {} THEN 0
    ELSE LET i == CHOOSE i \in S : TRUE
         IN get_error_count(self.pages[i]) + ErrSum(self, S \ {i})

\* get_error_count
get_error_count(self) == self.error_count + ErrSum(self, BookPages(self))

----------------------------------------------------------------------------
(* Transaction *)

Timestamps == 1..MaxTime

\* the transaction objects: 0 is the critical one, 1..MaxAdds the added ones
TransactionIds == 0..MaxAdds

\* the sender and receiver names, strings as sequences of characters
Users == { <<"a">>, <<"b">>, <<"a", "b">> }

\* the timestamps of the transactions that are signed
SignTimestamps == (0..MaxTime) \cup {MaxTime + 10}

\* Transaction.__init__: an object (identified by id) with its fields; its
\* signature attribute is held in signatures[id], None after construction
Transaction(id, timestamp, from_user, to_user) ==
    [id |-> id, timestamp |-> timestamp, from_user |-> from_user, to_user |-> to_user]

\* make_tx of the tests: sender "a", receiver "b"
make_tx(id, timestamp) == Transaction(id, timestamp, <<"a">>, <<"b">>)

\* a signature the client assigned to the object before handing it over
Preset(id) == PyStr(<<"preset", id>>)

----------------------------------------------------------------------------
(* Python integers of any size, as needed by Transaction.sign: a natural   *)
(* number is the sequence of its digits in base SIGNATURE_BASE, the least  *)
(* significant first, without leading zeros; 0 is the empty sequence.      *)

SIGNATURE_LENGTH == 36
SIGNATURE_BASE == 36

DIGITS ==
    << "0", "1", "2", "3", "4", "5", "6", "7", "8", "9",
       "a", "b", "c", "d", "e", "f", "g", "h", "i", "j", "k", "l", "m",
       "n", "o", "p", "q", "r", "s", "t", "u", "v", "w", "x", "y", "z" >>

\* the digits without leading zeros
Norm(x) ==
    LET used == {i \in 1..Len(x) : x[i] # 0}
    IN IF used = {} THEN << >>
       ELSE SubSeq(x, 1, CHOOSE i \in used : \A j \in used : j <= i)

RECURSIVE FromInt(_)
\* a small natural number
FromInt(n) ==
    IF n = 0 THEN << >>
    ELSE <<n % SIGNATURE_BASE>> \o FromInt(n \div SIGNATURE_BASE)

\* the digit of x at position i, 0 outside x
Digit(x, i) == IF i >= 1 /\ i <= Len(x) THEN x[i] ELSE 0

RECURSIVE Carry(_, _, _, _)
\* the digits of the columns lo..hi, each column an integer that may exceed
\* a digit or be negative, with the carry that enters at lo, and the carry
\* that leaves at hi; the halves are carried one after the other
Carry(cols, lo, hi, carry) ==
    IF lo > hi THEN [digits |-> << >>, carry |-> carry]
    ELSE IF lo = hi
    THEN LET sum == cols[lo] + carry
         IN [digits |-> <<sum % SIGNATURE_BASE>>, carry |-> sum \div SIGNATURE_BASE]
    ELSE LET mid == (lo + hi) \div 2
             low == Carry(cols, lo, mid, carry)
             high == Carry(cols, mid + 1, hi, low.carry)
         IN [digits |-> low.digits \o high.digits, carry |-> high.carry]

\* the number whose columns are cols, the result not being negative
FromColumns(cols) ==
    LET carried == Carry(cols, 1, Len(cols), 0)
    IN Norm(carried.digits \o FromInt(carried.carry))

\* x + y
BigAdd(x, y) ==
    FromColumns([i \in 1..Max(Len(x), Len(y)) |-> Digit(x, i) + Digit(y, i)])

RECURSIVE ColumnSum(_, _, _, _)
\* the sum of the products of the digits of x and y that fall in column k,
\* from the digit j of y on
ColumnSum(x, y, k, j) ==
    IF j > Len(y) THEN 0
    ELSE Digit(x, k - j + 1) * y[j] + ColumnSum(x, y, k, j + 1)

\* x * y, y being the shorter number (one of the multipliers)
BigMul(x, y) ==
    IF x = << >> \/ y = << >> THEN << >>
    ELSE FromColumns([k \in 1..(Len(x) + Len(y) - 1) |-> ColumnSum(x, y, k, 1)])

RECURSIVE Xor(_, _)
\* a ^ b on small integers
Xor(a, b) ==
    IF a = 0 THEN b
    ELSE IF b = 0 THEN a
    ELSE (((a % 2) + (b % 2)) % 2) + 2 * Xor(a \div 2, b \div 2)

\* a << n on small integers
ShiftLeft(a, n) == a * 2 ^ n

\* more bits than any small operand of ^ has
XorBits == 24

RECURSIVE LowBits(_, _)
\* x % 2^XorBits from the digit i on: SIGNATURE_BASE is a multiple of 4, so
\* the digits after the first XorBits \div 2 weigh a multiple of 2^XorBits
LowBits(x, i) ==
    IF i > Len(x) \/ i > XorBits \div 2 THEN 0
    ELSE (x[i] + SIGNATURE_BASE * LowBits(x, i + 1)) % (2 ^ XorBits)

\* x ^ v for a small v: only the low XorBits bits of x change
BigXor(x, v) ==
    LET low == LowBits(x, 1)
        delta == Xor(low, v) - low
    IN FromColumns([i \in 1..Max(Len(x), 1) |->
                        Digit(x, i) + (IF i = 1 THEN delta ELSE 0)])

\* the decimal numerals below are written in groups of six digits
Million == 1000000

RECURSIVE FromGroups(_, _)
\* the number whose decimal numeral is that of acc followed by the groups
FromGroups(groups, acc) ==
    IF groups = << >> THEN acc
    ELSE FromGroups(Tail(groups),
                    BigAdd(BigMul(acc, FromInt(Million)), FromInt(Head(groups))))

\* 1469598103934665603
SEED == FromGroups(<<1, 469598, 103934, 665603>>, << >>)
\* 11400714819323198485
MULTIPLIER_A == FromGroups(<<11, 400714, 819323, 198485>>, << >>)
\* 1099511628211
MULTIPLIER_B == FromGroups(<<1, 99511, 628211>>, << >>)

\* ord(char) of a lowercase letter or a digit
Ord(char) ==
    LET i == page_index(char)
    IN IF i < 26 THEN 97 + i ELSE 48 + (i - 26)

RECURSIVE Str(_)
\* str(n) of a natural number, as a sequence of characters
Str(n) ==
    IF n < 10 THEN <<DIGITS[n + 1]>>
    ELSE Str(n \div 10) \o <<DIGITS[(n % 10) + 1]>>

\* the statements of sign that change hashed_value, as records: `^= small`,
\* `*= big` and `+= big`
XorStep(small) == [op |-> "xor", small |-> small, big |-> << >>]
MulStep(big) == [op |-> "mul", small |-> 0, big |-> big]
AddStep(big) == [op |-> "add", small |-> 0, big |-> big]

RECURSIVE SenderSteps(_)
\* sign, the loop over from_user
SenderSteps(chars) ==
    IF chars = << >> THEN << >>
    ELSE <<XorStep(Ord(Head(chars))), MulStep(MULTIPLIER_A), AddStep(MULTIPLIER_B)>>
         \o SenderSteps(Tail(chars))

RECURSIVE TimestampSteps(_)
\* sign, the loop over str(timestamp)
TimestampSteps(chars) ==
    IF chars = << >> THEN << >>
    ELSE <<XorStep(ShiftLeft(Ord(Head(chars)), 4)), MulStep(MULTIPLIER_B),
           AddStep(MULTIPLIER_A)>>
         \o TimestampSteps(Tail(chars))

RECURSIVE ReceiverSteps(_)
\* sign, the loop over to_user
ReceiverSteps(chars) ==
    IF chars = << >> THEN << >>
    ELSE <<XorStep(Ord(Head(chars))), MulStep(MULTIPLIER_B), AddStep(MULTIPLIER_A)>>
         \o ReceiverSteps(Tail(chars))

\* sign, the statements executed on hashed_value after `_SEED ^ timestamp`
\* and before the modulus, in order
HashSteps(timestamp, from_user, to_user) ==
    <<MulStep(MULTIPLIER_A), XorStep(ShiftLeft(Len(from_user), 8)), MulStep(MULTIPLIER_B)>>
    \o SenderSteps(from_user)
    \o TimestampSteps(Str(timestamp))
    \o <<XorStep(ShiftLeft(Len(to_user), 16)), MulStep(MULTIPLIER_A)>>
    \o ReceiverSteps(to_user)

\* one statement on hashed_value
Apply(hashed_value, step) ==
    CASE step.op = "xor" -> BigXor(hashed_value, step.small)
      [] step.op = "mul" -> BigMul(hashed_value, step.big)
      [] step.op = "add" -> BigAdd(hashed_value, step.big)

RECURSIVE Run(_, _, _, _)
\* hashed_value after the statements lo..hi, executed in order: the first
\* half is evaluated, then the second half on its result
Run(hashed_value, statements, lo, hi) ==
    IF lo > hi THEN hashed_value
    ELSE IF lo = hi THEN Apply(hashed_value, statements[lo])
    ELSE LET mid == (lo + hi) \div 2
             half == Run(hashed_value, statements, lo, mid)
         IN <<half, Run(half, statements, mid + 1, hi)>>[2]

\* variant of Reduce: the value is not reduced
ReduceNothing(hashed_value) == hashed_value

\* sign, `hashed_value %= _SIGNATURE_MODULUS`, the modulus being
\* SIGNATURE_BASE ** SIGNATURE_LENGTH: the low SIGNATURE_LENGTH digits
Reduce(hashed_value) ==
    IF Len(hashed_value) <= SIGNATURE_LENGTH THEN hashed_value
    ELSE Norm(SubSeq(hashed_value, 1, SIGNATURE_LENGTH))

\* sign, the value that is written in base 36
HashedValue(timestamp, from_user, to_user) ==
    LET statements == HashSteps(timestamp, from_user, to_user)
    IN Reduce(Run(BigXor(SEED, timestamp), statements, 1, Len(statements)))

\* sign, the loop `while value > 0`: each round takes the lowest digit of
\* value and puts its character in front, so the highest digit comes first
ToBase(value) ==
    [i \in 1..Len(value) |-> DIGITS[value[Len(value) - i + 1] + 1]]

\* sign, the loop `while len(signature) < _SIGNATURE_LENGTH`
Pad(sig) ==
    IF Len(sig) < SIGNATURE_LENGTH
    THEN [i \in 1..(SIGNATURE_LENGTH - Len(sig)) |-> "0"] \o sig
    ELSE sig

\* sign, the signature string for the fields
SignatureString(timestamp, from_user, to_user) ==
    LET value == HashedValue(timestamp, from_user, to_user)
    IN Pad(IF value = << >> THEN <<"0">> ELSE ToBase(value))

\* the signature strings of the transactions that are signed, computed once
\* (@@ makes the table an explicit function)
SignatureTable ==
    [f \in SignTimestamps \X Users \X Users |-> SignatureString(f[1], f[2], f[3])]
        @@ << >>

\* Transaction.sign: the value assigned to self.signature
sign(transaction) ==
    PyStr(SignatureTable[<<transaction.timestamp, transaction.from_user,
                           transaction.to_user>>])

\* variant of Sign: signing a signed transaction again changes the signature
SignAgainDiffers(sigs, transaction) ==
    IF sigs[transaction.id] = PyNone
    THEN [sigs EXCEPT ![transaction.id] = sign(transaction)]
    ELSE [sigs EXCEPT ![transaction.id] = PyStr(Tail(@.s) \o <<"0">>)]

\* transaction.sign(), on the signature attributes of the objects
Sign(sigs, transaction) ==
    [sigs EXCEPT ![transaction.id] = sign(transaction)]

----------------------------------------------------------------------------
(* FraudDetection.detect_by_blocks (src/fraud_detection.py).  The          *)
(* transactions are a sequence of objects; the signature of an object is   *)
(* the string the client assigned, held in sigs[id].                       *)

RECURSIVE StrLess(_, _)
\* a < b on Python strings: by the code points of the first characters
\* that differ, a proper prefix being less
StrLess(a, b) ==
    IF b = << >> THEN FALSE
    ELSE IF a = << >> THEN TRUE
    ELSE IF Head(a) # Head(b) THEN Ord(Head(a)) < Ord(Head(b))
    ELSE StrLess(Tail(a), Tail(b))

\* variant of SortedAdd: the item is added at the end
AddLast(blocks, item) == Append(blocks, item)

\* ArraySortedList.add: the item is put after the items that are not
\* greater than it
SortedAdd(blocks, item) ==
    LET before == Cardinality({i \in 1..Len(blocks) : ~StrLess(item, blocks[i])})
    IN SubSeq(blocks, 1, before) \o <<item>> \o SubSeq(blocks, before + 1, Len(blocks))

RECURSIVE SortedBlocks(_, _, _)
\* the loop `for i in range(0, len(sig) - (len(sig) % S), S)`, from i on:
\* the blocks of S characters of sig, added to the sorted list blocks
SortedBlocks(sig, S, i) ==
    IF i >= Len(sig) - (Len(sig) % S) THEN << >>
    ELSE SortedAdd(SortedBlocks(sig, S, i + S), SubSeq(sig, i + 1, i + S))

RECURSIVE Join(_)
\* ''.join(blocks)
Join(blocks) ==
    IF blocks = << >> THEN << >> ELSE Head(blocks) \o Join(Tail(blocks))

\* the key of a signature for the block size S
Key(sig, S) ==
    LET remainder == SubSeq(sig, Len(sig) - (Len(sig) % S) + 1, Len(sig))
    IN Join(SortedBlocks(sig, S, 0)) \o remainder

\* the groups after one more key: the count of the first group with the
\* key goes up, or a group of one is added at the end
CountKey(groups, key) ==
    LET found == {i \in 1..Len(groups) : groups[i][1] = key}
    IN IF found # {}
       THEN LET i == CHOOSE i \in found : \A j \in found : i <= j
            IN [groups EXCEPT ![i] = <<key, groups[i][2] + 1>>]
       ELSE Append(groups, <<key, 1>>)

RECURSIVE Groups(_, _, _, _)
\* the loop `for tr in self.transactions`, the first n transactions done
Groups(trs, sigs, S, n) ==
    IF n = 0 THEN << >>
    ELSE CountKey(Groups(trs, sigs, S, n - 1), Key(sigs[trs[n].id].s, S))

RECURSIVE Product(_, _)
\* the loop `for i in range(index)`: the product of the first n counts
Product(groups, n) ==
    IF n = 0 THEN 1 ELSE Product(groups, n - 1) * groups[n][2]

RECURSIVE BlockSizesLast(_, _, _)
\* variant of BlockSizes: a block size with the same product replaces the
\* best one
BlockSizesLast(trs, sigs, S) ==
    IF S = 0 THEN <<1, 1>>
    ELSE LET best == BlockSizesLast(trs, sigs, S - 1)
             groups == Groups(trs, sigs, S, Len(trs))
             product == Product(groups, Len(groups))
         IN IF product >= best[2] THEN <<S, product>> ELSE best

RECURSIVE BlockSizes(_, _, _)
\* the loop `for S in range(1, L + 1)`, the sizes 1..S done: (best_S,
\* max_product)
BlockSizes(trs, sigs, S) ==
    IF S = 0 THEN <<1, 1>>
    ELSE LET best == BlockSizes(trs, sigs, S - 1)
             groups == Groups(trs, sigs, S, Len(trs))
             product == Product(groups, Len(groups))
         IN IF product > best[2] THEN <<S, product>> ELSE best

\* FraudDetection(trs).detect_by_blocks(): (best_S, max_product)
detect_by_blocks(trs, sigs) ==
    IF Len(trs) = 0 THEN <<1, 1>>
    ELSE LET L == Len(sigs[trs[1].id].s)
         IN BlockSizes(trs, sigs, L)

----------------------------------------------------------------------------
(* FraudDetection.rectify.  A hash function is the table of the values it  *)
(* returns for the transactions, by id.                                    *)

\* float('inf')
Infinity == [t |-> "inf", b |-> FALSE, n |-> 0]

\* a < b for an integer a and b an integer or float('inf')
LessThan(a, b) == b = Infinity \/ a < b.n

RECURSIVE sort_array(_)
\* sort_array(arr, reverse=True): the values in descending order
sort_array(arr) ==
    IF arr = << >> THEN << >>
    ELSE LET rest == sort_array(Tail(arr))
             above == Cardinality({i \in 1..Len(rest) : rest[i] >= Head(arr)})
         IN SubSeq(rest, 1, above) \o <<Head(arr)>> \o SubSeq(rest, above + 1, Len(rest))

\* max(hashes)
MaxOf(hashes) ==
    CHOOSE h \in {hashes[i] : i \in DOMAIN hashes} : \A i \in DOMAIN hashes : hashes[i] <= h

RECURSIVE ProbeOneMore(_, _, _, _)
\* variant of Probe: the loop is left when count exceeds M
ProbeOneMore(occupied, M, current, count) ==
    IF current \in occupied
    THEN IF count + 1 > M THEN count + 1
         ELSE ProbeOneMore(occupied, M, (current + 1) % M, count + 1)
    ELSE count

RECURSIVE Probe(_, _, _, _)
\* the loop `while True`: the count when the loop is left, occupied being
\* the keys of the table
Probe(occupied, M, current, count) ==
    IF current \in occupied
    THEN IF count + 1 >= M THEN count + 1
         ELSE Probe(occupied, M, (current + 1) % M, count + 1)
    ELSE count

\* variant of MarkHome: the slot where the probing ended is marked
MarkProbed(occupied, M, h) ==
    LET count == Probe(occupied, M, h, 0)
    IN IF count >= M THEN occupied ELSE occupied \cup {(h + count) % M}

\* `occupied[str(h)] = True`
MarkHome(occupied, M, h) == occupied \cup {h}

RECURSIVE Insertions(_, _, _)
\* the loop `for idx in range(len(hashes))`, the first n hashes done: the
\* keys of the table and max_probe
Insertions(hashes, M, n) ==
    IF n = 0 THEN [occupied |-> {}, max_probe |-> 0]
    ELSE LET done == Insertions(hashes, M, n - 1)
             probe == Probe(done.occupied, M, hashes[n], 0)
         IN [occupied |-> MarkHome(done.occupied, M, hashes[n]),
             max_probe |-> Max(done.max_probe, probe)]

\* max_probe of one function
MaxProbe(trs, func) ==
    LET hashes == sort_array([i \in 1..Len(trs) |-> func[trs[i].id]])
    IN Insertions(hashes, MaxOf(hashes) + 1, Len(hashes)).max_probe

RECURSIVE Candidates(_, _, _)
\* the loop `for func in functions`, the first n functions done:
\* (best_function, min_mpcl), a function being named by its position
Candidates(trs, funcs, n) ==
    IF n = 0 THEN <<PyNone, Infinity>>
    ELSE LET best == Candidates(trs, funcs, n - 1)
         IN IF Len(trs) = 0 THEN best
            ELSE LET max_probe == MaxProbe(trs, funcs[n])
                 IN IF LessThan(max_probe, best[2]) THEN <<n, PyInt(max_probe)>> ELSE best

\* FraudDetection(trs).rectify(funcs): (best_function, min_mpcl)
rectify(trs, funcs) == Candidates(trs, funcs, Len(funcs))

----------------------------------------------------------------------------
(* ProcessingLine *)

\* LinkedStack, the top of the stack is the end of the sequence
push(stack, item) == Append(stack, item)
peek(stack) == stack[Len(stack)]
pop(stack) == SubSeq(stack, 1, Len(stack) - 1)

\* ProcessingLine.__init__
ProcessingLine(critical_transaction) ==
    [critical_transaction |-> critical_transaction,
     before_stack |-> << >>, after_stack |-> << >>, locked |-> FALSE]

\* outcome of a call on the line: the line afterwards, the exception raised
\* ("none" if the call returned) and the returned value
LineOutcome(l, e, ret) == [line |-> l, exc |-> e, ret |-> ret]

\* variant of IsBefore: an equal timestamp goes to the after side
IsBeforeStrict(self, transaction) ==
    transaction.timestamp < self.critical_transaction.timestamp

\* add_transaction, the side the transaction goes to
IsBefore(self, transaction) ==
    transaction.timestamp <= self.critical_transaction.timestamp

\* variant of KeepPopping: the transactions with the same timestamp stay
\* where they are
KeepPoppingGreater(before_stack, transaction) ==
    /\ Len(before_stack) > 0
    /\ peek(before_stack).timestamp > transaction.timestamp

\* variant of KeepPopping: the transactions with a smaller or equal timestamp
\* are moved out of the way
KeepPoppingSmaller(before_stack, transaction) ==
    /\ Len(before_stack) > 0
    /\ peek(before_stack).timestamp <= transaction.timestamp

\* add_transaction, the condition of the first while loop
KeepPopping(before_stack, transaction) ==
    /\ Len(before_stack) > 0
    /\ peek(before_stack).timestamp >= transaction.timestamp

RECURSIVE PopIntoBuffer(_, _, _)
\* add_transaction, the first while loop: the result is the pair of the
\* before stack and the buffer when the loop ends
PopIntoBuffer(before_stack, buffer, transaction) ==
    IF KeepPopping(before_stack, transaction)
    THEN PopIntoBuffer(pop(before_stack), push(buffer, peek(before_stack)), transaction)
    ELSE <<before_stack, buffer>>

\* variant of PushBack: the transactions moved to the buffer are not put back
PushBackNothing(before_stack, buffer) == before_stack

RECURSIVE PushBack(_, _)
\* add_transaction, the second while loop
PushBack(before_stack, buffer) ==
    IF Len(buffer) > 0
    THEN PushBack(push(before_stack, peek(buffer)), pop(buffer))
    ELSE before_stack

\* add_transaction, the before side
AddBefore(self, transaction) ==
    LET popped == PopIntoBuffer(self.before_stack, << >>, transaction)
    IN [self EXCEPT !.before_stack = PushBack(push(popped[1], transaction), popped[2])]

\* variant of AddAfter: the transaction goes to the bottom of the stack
AddAfterBottom(self, transaction) ==
    [self EXCEPT !.after_stack = <<transaction>> \o @]

\* add_transaction, the after side
AddAfter(self, transaction) ==
    [self EXCEPT !.after_stack = push(@, transaction)]

\* variant of add_transaction: the lock is not looked at
add_transactionUnlocked(self, transaction) ==
    LineOutcome(IF IsBefore(self, transaction)
                  THEN AddBefore(self, transaction)
                  ELSE AddAfter(self, transaction),
                "none", PyNone)

\* add_transaction
add_transaction(self, transaction) ==
    IF self.locked THEN LineOutcome(self, "RuntimeError", PyNone)
    ELSE LineOutcome(IF IsBefore(self, transaction)
                       THEN AddBefore(self, transaction)
                       ELSE AddAfter(self, transaction),
                     "none", PyNone)

\* ProcessingLine.__iter__: the returned value stands for the new iterator
LineIter(self) ==
    IF self.locked THEN LineOutcome(self, "RuntimeError", PyNone)
    ELSE LineOutcome([self EXCEPT !.locked = TRUE], "none", PyBool(TRUE))

\* variant of SignIfNone: the transaction is returned as it is
SignNever(sigs, transaction) == sigs

\* variant of SignIfNone: the transaction is signed whatever it carries
SignAlways(sigs, transaction) == Sign(sigs, transaction)

\* __next__, `if transaction.signature is None: transaction.sign()`
SignIfNone(sigs, transaction) ==
    IF sigs[transaction.id] = PyNone
    THEN Sign(sigs, transaction)
    ELSE sigs

\* variant of Take: the critical transaction is passed over, its reference
\* is never cleared
TakeLeavesCritical(self) ==
    IF Len(self.before_stack) > 0
    THEN LineOutcome([self EXCEPT !.before_stack = pop(@)], "none",
                     peek(self.before_stack))
    ELSE IF Len(self.after_stack) > 0
    THEN LineOutcome([self EXCEPT !.after_stack = pop(@)], "none",
                     peek(self.after_stack))
    ELSE LineOutcome(self, "StopIteration", PyNone)

\* _ProcessingLineIterator.__next__, the choice of the transaction: the
\* line afterwards and the transaction returned, or StopIteration
Take(self) ==
    IF Len(self.before_stack) > 0
    THEN LineOutcome([self EXCEPT !.before_stack = pop(@)], "none",
                     peek(self.before_stack))
    ELSE IF self.critical_transaction # PyNone
    THEN LineOutcome([self EXCEPT !.critical_transaction = PyNone], "none",
                     self.critical_transaction)
    ELSE IF Len(self.after_stack) > 0
    THEN LineOutcome([self EXCEPT !.after_stack = pop(@)], "none",
                     peek(self.after_stack))
    ELSE LineOutcome(self, "StopIteration", PyNone)

\* _ProcessingLineIterator.__next__: the outcome on the line and the
\* signatures afterwards
IteratorNext(self, sigs) ==
    LET r == Take(self)
    IN [line |-> r.line, exc |-> r.exc, ret |-> r.ret,
        signatures |-> IF r.exc = "none" THEN SignIfNone(sigs, r.ret) ELSE sigs]

\* a new line around a critical transaction with the given timestamp, no
\* iterator, nothing added or returned yet
NewLine(timestamp, signed) ==
    /\ critical = make_tx(0, timestamp)
    /\ line = ProcessingLine(make_tx(0, timestamp))
    /\ iterator = FALSE
    /\ signatures = [id \in TransactionIds |->
                       IF id = 0 /\ signed THEN Preset(0) ELSE PyNone]
    /\ additions = << >>
    /\ yielded = << >>
    /\ raised = "none"

----------------------------------------------------------------------------
(* What a book holds, read off its pages *)

RECURSIVE Entries(_)
\* the (transaction, amount) tuples held anywhere below a book
Entries(b) ==
    UNION { CASE b.pages[i].kind = "tuple" -> {b.pages[i]}
              [] b.pages[i].kind = "ProcessingBook" -> Entries(b.pages[i])
              [] OTHER -> {}
            : i \in PageRange }

RECURSIVE Books(_)
\* a book and every book nested below it
Books(b) ==
    {b} \cup UNION { IF b.pages[i].kind = "ProcessingBook"
                       THEN Books(b.pages[i]) ELSE {}
                     : i \in PageRange }

\* the books nested below b, b itself excluded
NestedBooks(b) ==
    UNION { IF b.pages[i].kind = "ProcessingBook"
              THEN Books(b.pages[i]) ELSE {}
            : i \in PageRange }

StoredKeys(b) == {e.tr : e \in Entries(b)}

\* a call that returned the amount
Returns(r, amount) == r.exc = "none" /\ r.ret = PyInt(amount)

\* a call that raised KeyError
NotFound(r) == r.exc = "KeyError"

\* the stored transactions that carry the signature of the transaction
\* without being that transaction
SameSignatureStored(b, transaction) ==
    {k \in StoredKeys(b) : k # transaction /\ signature(k) = signature(transaction)}

----------------------------------------------------------------------------
(* The book under a sequence of at most MaxSteps calls that write to it.   *)
(* A call that raises leaves the book as the call left it.  The reading    *)
(* calls (book[t], len, iter, get_error_count) are evaluated on the states.*)

\* no transactions and no functions were handed over, no call returned
NoFraudDetection ==
    /\ transactions = << >>
    /\ functions = << >>
    /\ result = PyNone

Init ==
    /\ book = ProcessingBook(0)
    /\ steps = 0
    /\ NewLine(MaxTime, FALSE)
    /\ NoFraudDetection

\* book[transaction] = amount
DoSet ==
    /\ steps < MaxSteps
    /\ \E transaction \in Transactions, amount \in Amounts :
         book' = SetItem(book, transaction, amount).book
    /\ steps' = steps + 1
    /\ UNCHANGED <<lineVars, fraudVars>>

\* del book[transaction]
DoDelete ==
    /\ steps < MaxSteps
    /\ \E transaction \in Transactions :
         book' = DelItem(book, transaction).book
    /\ steps' = steps + 1
    /\ UNCHANGED <<lineVars, fraudVars>>

Next == DoSet \/ DoDelete

Spec == Init /\ [][Next]_vars

\* the book under the same calls, for the properties of what a call leaves
\* as it was
SpecFrame == Init /\ [][DoSet \/ DoDelete]_vars

----------------------------------------------------------------------------
(* The book under sets of new transactions only: every set stores a        *)
(* transaction that is not stored and whose signature no stored            *)
(* transaction carries, so every order of inserting a set of transactions  *)
(* with distinct signatures into an empty book is a behaviour.             *)

DoInsert ==
    /\ \E transaction \in Transactions, amount \in Amounts :
         /\ \A e \in Entries(book) : signature(e.tr) # signature(transaction)
         /\ book' = SetItem(book, transaction, amount).book
    /\ steps' = steps + 1
    /\ UNCHANGED <<lineVars, fraudVars>>

SpecInsert == Init /\ [][DoInsert]_vars

----------------------------------------------------------------------------
(* A processing line and its client: at most MaxAdds transactions are      *)
(* added, iter(line) is called, and next is called on the iterator.        *)
(* additions and yielded are what the client handed over and got back,     *)
(* raised is the exception of the last call ("none" if it returned).       *)

InitLine ==
    /\ book = ProcessingBook(0)
    /\ steps = 0
    /\ \E timestamp \in Timestamps, signed \in BOOLEAN : NewLine(timestamp, signed)
    /\ NoFraudDetection

\* line.add_transaction(transaction), the transaction a new object that is
\* unsigned or carries a signature of the client's
DoAdd ==
    /\ line.locked \/ Len(additions) < MaxAdds
    /\ \E timestamp \in Timestamps, signed \in BOOLEAN :
         LET transaction == make_tx(Len(additions) + 1, timestamp)
             r == add_transaction(line, transaction)
         IN /\ line' = r.line
            /\ raised' = r.exc
            /\ additions' = IF r.exc = "none" THEN Append(additions, transaction) ELSE additions
            /\ signatures' = IF r.exc = "none" /\ signed
                               THEN [signatures EXCEPT ![transaction.id] = Preset(transaction.id)]
                               ELSE signatures
    /\ UNCHANGED <<critical, iterator, yielded, bookVars, fraudVars>>

\* iter(line)
DoIter ==
    /\ LET r == LineIter(line)
       IN /\ line' = r.line
          /\ raised' = r.exc
          /\ iterator' = IF r.exc = "none" THEN TRUE ELSE iterator
    /\ UNCHANGED <<critical, signatures, additions, yielded, bookVars, fraudVars>>

\* next(it) on the iterator iter(line) returned
DoNext ==
    /\ iterator
    /\ LET r == IteratorNext(line, signatures)
       IN /\ line' = r.line
          /\ raised' = r.exc
          /\ signatures' = r.signatures
          /\ yielded' = IF r.exc = "none" THEN Append(yielded, r.ret) ELSE yielded
    /\ UNCHANGED <<critical, iterator, additions, bookVars, fraudVars>>

NextLine == DoAdd \/ DoIter \/ DoNext

SpecLine == InitLine /\ [][NextLine]_vars

\* the line under the same calls, for the properties of the iteration to
\* its end
SpecIteration == InitLine /\ [][DoAdd \/ DoIter \/ DoNext]_vars

----------------------------------------------------------------------------
(* Transaction.sign called by the client: two transaction objects with any *)
(* fields, signed any number of times.                                     *)

\* the two objects
Signers == 1..2

InitSign ==
    /\ book = ProcessingBook(0)
    /\ steps = 0
    /\ NewLine(MaxTime, FALSE)
    /\ \E f \in [Signers -> SignTimestamps \X Users \X Users] :
         transactions = [id \in Signers |-> Transaction(id, f[id][1], f[id][2], f[id][3])]
    /\ functions = << >>
    /\ result = PyNone

\* transactions[id].sign()
DoSign ==
    /\ \E id \in Signers : signatures' = Sign(signatures, transactions[id])
    /\ UNCHANGED <<bookVars, critical, line, iterator, additions, yielded, raised,
                   fraudVars>>

SpecSign == InitSign /\ [][DoSign]_vars

----------------------------------------------------------------------------
(* FraudDetection.detect_by_blocks on any transactions whose signatures    *)
(* the client assigned, all of the same length.  The transactions are      *)
(* handed over in the order of their signatures: the groups are formed by  *)
(* the keys, which are not in that order.                                  *)

\* the characters of the signatures handed to detect_by_blocks
BlockChars == {"a", "b"}

\* the signatures handed to detect_by_blocks
BlockSignatures == [1..BlockSigLen -> BlockChars]

\* the objects handed to FraudDetection: timestamps 1, 2, ... as in the tests
Suspects(n) == [id \in 1..n |-> Transaction(id, id, <<"a">>, <<"b">>)]

InitDetect ==
    /\ book = ProcessingBook(0)
    /\ steps = 0
    /\ critical = make_tx(0, MaxTime)
    /\ line = ProcessingLine(make_tx(0, MaxTime))
    /\ iterator = FALSE
    /\ additions = << >>
    /\ yielded = << >>
    /\ raised = "none"
    /\ \E n \in 0..MaxSuspects :
         /\ transactions = Suspects(n)
         /\ \E assigned \in [1..n -> BlockSignatures] :
              /\ \A id \in 1..(n - 1) : ~StrLess(assigned[id + 1], assigned[id])
              /\ signatures = [id \in 1..n |-> PyStr(assigned[id])]
    /\ functions = << >>
    /\ result = PyNone

\* FraudDetection(transactions).detect_by_blocks()
DoDetect ==
    /\ result' = detect_by_blocks(transactions, signatures)
    /\ UNCHANGED <<bookVars, lineVars, transactions, functions>>

SpecDetect == InitDetect /\ [][DoDetect]_vars

----------------------------------------------------------------------------
(* FraudDetection.rectify on one or two hash functions with any values.    *)

\* the values a hash function returns
Hashes == 0..MaxHash

InitRectify ==
    /\ book = ProcessingBook(0)
    /\ steps = 0
    /\ NewLine(MaxTime, FALSE)
    /\ \E n \in 0..MaxHashed :
         /\ transactions = Suspects(n)
         /\ \E one, other \in [1..n -> Hashes], several \in BOOLEAN :
              functions = IF several THEN <<one, other>> ELSE <<one>>
    /\ result = PyNone

\* FraudDetection(transactions).rectify(functions)
DoRectify ==
    /\ result' = rectify(transactions, functions)
    /\ UNCHANGED <<bookVars, lineVars, transactions, functions>>

SpecRectify == InitRectify /\ [][DoRectify]_vars

----------------------------------------------------------------------------
(* Properties of ProcessingBook.  A property of a call is stated for every   *)
(* book the calls can produce and every call that can be made on it next.   *)

\* C1: after any sequence of Set and Delete calls the total_count of every
\* book, nested or root, equals the number of transactions stored below it;
\* so len(book) is the number of stored transactions.
C1_CountMatchesKeys ==
    \A n \in Books(book) : n.total_count = Cardinality(StoredKeys(n))

\* C2: setting a stored transaction to the amount it already has returns,
\* leaves len and get_error_count as they were, and the transaction still
\* reads back that amount.
C2_SameAmountSetIsIdempotent ==
    \A e \in Entries(book) :
        LET r == SetItem(book, e.tr, e.amt)
        IN /\ r.exc = "none"
           /\ BookLen(r.book) = BookLen(book)
           /\ get_error_count(r.book) = get_error_count(book)
           /\ Returns(GetItem(r.book, e.tr), e.amt)

\* C3: setting a stored transaction to a different amount leaves the stored
\* amount readable and raises the root's get_error_count by exactly 1.
C3_ConflictKeepsAmountAndCounts ==
    LET errors == get_error_count(book)
    IN \A e \in Entries(book) : \A v2 \in Amounts \ {e.amt} :
        LET r == SetItem(book, e.tr, v2)
        IN /\ r.exc = "none"
           /\ Returns(GetItem(r.book, e.tr), e.amt)
           /\ get_error_count(r.book) = errors + 1

\* C3 witness: conflicting sets were counted inside a nested book, and a
\* further conflicting set on a tuple inside a nested book is counted
C3_Witness ==
    /\ \E n \in NestedBooks(book) : n.error_count >= 1
    /\ \E e \in Entries(book) : \E v2 \in Amounts \ {e.amt} :
          LET r == SetItem(book, e.tr, v2)
          IN /\ r.exc = "none" /\ r.deepest >= 1
             /\ get_error_count(r.book) = get_error_count(book) + 1

\* C4: setting a transaction that is not stored, and whose signature no stored
\* transaction carries, makes it read back with the amount set.
C4_RoundTrip ==
    \A k \in Transactions \ StoredKeys(book) : \A v \in Amounts :
        SameSignatureStored(book, k) = {} =>
            LET r == SetItem(book, k, v)
            IN /\ r.exc = "none"
               /\ Returns(GetItem(r.book, k), v)

\* C5: deleting a stored transaction returns; afterwards reading it raises
\* KeyError and len is exactly one less than before.
C5_DeleteRemoves ==
    \A k \in StoredKeys(book) :
        LET r == DelItem(book, k)
        IN /\ r.exc = "none"
           /\ NotFound(GetItem(r.book, k))
           /\ BookLen(r.book) = BookLen(book) - 1

\* C5 witness: a stored transaction is deleted from inside a nested book,
\* which the delete collapses
C5_Witness ==
    \E k \in StoredKeys(book) :
        LET r == DelItem(book, k)
        IN /\ r.exc = "none" /\ r.deepest >= 1
           /\ NestedBooks(r.book) # NestedBooks(book)
           /\ BookLen(r.book) = BookLen(book) - 1

\* C6: after any sequence of Set and Delete calls every nested book holds at
\* least two transactions.
C6_NestedBooksHoldTwo ==
    \A n \in NestedBooks(book) : Cardinality(StoredKeys(n)) >= 2

\* C7: a delete that returned leaves every other stored transaction readable
\* with the amount it had before.
C7_DeleteKeepsOthers ==
    \A k \in Transactions :
        LET r == DelItem(book, k)
        IN r.exc = "none" =>
              \A e \in Entries(book) :
                  e.tr # k => Returns(GetItem(r.book, e.tr), e.amt)

----------------------------------------------------------------------------
(* The order of signatures: letters a..z rank 0..25, digits 0..9 rank 26..35 *)

Letters == << "a", "b", "c", "d", "e", "f", "g", "h", "i", "j", "k", "l", "m",
              "n", "o", "p", "q", "r", "s", "t", "u", "v", "w", "x", "y", "z" >>

Digits == << "0", "1", "2", "3", "4", "5", "6", "7", "8", "9" >>

Rank(c) ==
    IF \E i \in 1..Len(Letters) : Letters[i] = c
    THEN (CHOOSE i \in 1..Len(Letters) : Letters[i] = c) - 1
    ELSE Len(Letters) + (CHOOSE i \in 1..Len(Digits) : Digits[i] = c) - 1

\* s comes strictly before t in lexicographic order of the ranks
SigLess(s, t) ==
    \E i \in 1..Len(s) :
        /\ i <= Len(t)
        /\ \A j \in 1..(i - 1) : s[j] = t[j]
        /\ Rank(s[i]) < Rank(t[i])

\* C8: iteration yields every stored tuple exactly once, in strictly
\* ascending order of the signatures.
C8_IterateSortedOnce ==
    LET it == Iterate(book)
    IN /\ Len(it) = Cardinality(Entries(book))
       /\ {it[i] : i \in 1..Len(it)} = Entries(book)
       /\ \A i, j \in 1..Len(it) :
              i < j => SigLess(signature(it[i].tr), signature(it[j].tr))

\* C9: reading or deleting a transaction that is not stored raises KeyError
\* and leaves the book, every nested book, count and error count as they were.
C9_NotFoundChangesNothing ==
    \A k \in Transactions \ StoredKeys(book) :
        LET d == DelItem(book, k)
            g == GetItem(book, k)
        IN /\ NotFound(d) /\ d.book = book
           /\ NotFound(g) /\ g.book = book

\* C9 witness: the delete of a transaction that is not stored goes down into
\* a nested book and ends at the tuple of another transaction, and the
\* delete of one ends at an empty page of a nested book
C9_Witness ==
    /\ \E k \in Transactions \ StoredKeys(book) :
          /\ SameSignatureStored(book, k) # {}
          /\ NotFound(DelItem(book, k)) /\ DelItem(book, k).deepest >= 1
    /\ \E k \in Transactions \ StoredKeys(book) :
          /\ SameSignatureStored(book, k) = {}
          /\ NotFound(DelItem(book, k)) /\ DelItem(book, k).deepest >= 1

\* C10: setting a transaction while another transaction with the same full
\* signature is stored raises IndexError no deeper than level SigLen and
\* leaves the book exactly as it was; the stored one still reads back.
C10_FullCollisionRaises ==
    LET stored == Entries(book)
    IN \A k \in Transactions :
        LET same == {e \in stored : e.tr # k /\ signature(e.tr) = signature(k)}
        IN same # {} =>
             \A v \in Amounts :
                 LET r == SetItem(book, k, v)
                 IN /\ r.exc = "IndexError"
                    /\ r.deepest <= SigLen
                    /\ r.book = book
                    /\ \A e \in same : Returns(GetItem(r.book, e.tr), e.amt)

\* C10 witness: the colliding set goes through nested books to level SigLen
C10_Witness ==
    \E k \in Transactions : \E v \in Amounts :
        /\ SameSignatureStored(book, k) # {}
        /\ NestedBooks(book) # {}
        /\ SetItem(book, k, v).exc = "IndexError"
        /\ SetItem(book, k, v).deepest = SigLen

----------------------------------------------------------------------------
(* Identity of keys, the error count, and the collapse of nested books *)

\* C11: while a transaction is stored, reading or deleting a different
\* transaction that carries the same signature raises KeyError; the delete
\* leaves the stored one readable with its amount and len as it was.
C11_SameSignatureIsAnotherKey ==
    \A e \in Entries(book) : \A k2 \in Transactions \ {e.tr} :
        signature(k2) = signature(e.tr) =>
            LET g == GetItem(book, k2)
                d == DelItem(book, k2)
            IN /\ NotFound(g)
               /\ NotFound(d)
               /\ Returns(GetItem(d.book, e.tr), e.amt)
               /\ BookLen(d.book) = BookLen(book)

\* C11 witness: the transaction with the same signature as the one read or
\* deleted is stored inside a nested book, next to another transaction
\* sharing a prefix with it
C11_Witness ==
    \E e \in Entries(book) : \E k2 \in Transactions \ {e.tr} :
        /\ signature(k2) = signature(e.tr)
        /\ Cardinality(Entries(book)) >= 2
        /\ NotFound(GetItem(book, k2)) /\ GetItem(book, k2).deepest >= 1
        /\ NotFound(DelItem(book, k2)) /\ DelItem(book, k2).deepest >= 1

\* a set of the transaction with the amount that is counted as an error: the
\* transaction is stored with a different amount
Conflicting(b, transaction, amount) ==
    \E e \in Entries(b) : e.tr = transaction /\ e.amt # amount

\* C12: get_error_count of the root is a running total: a set of a stored
\* transaction with a different amount raises it by one, every other set and
\* every delete leaves it as it was, so it never decreases.
C12_ErrorCountIsRunningTotal ==
    LET errors == get_error_count(book)
    IN /\ \A k \in Transactions : \A v \in Amounts :
             get_error_count(SetItem(book, k, v).book)
                = errors + (IF Conflicting(book, k, v) THEN 1 ELSE 0)
       /\ \A k \in Transactions :
             get_error_count(DelItem(book, k).book) = errors

\* C13: a set of a stored transaction with a different amount changes nothing
\* but the error count: len, the amount every stored transaction reads back
\* and the sequence iteration yields are as before.
C13_ConflictChangesOnlyErrorCount ==
    LET stored == Entries(book)
        it == Iterate(book)
    IN \A e \in stored : \A v2 \in Amounts \ {e.amt} :
        LET r == SetItem(book, e.tr, v2)
        IN /\ r.exc = "none"
           /\ BookLen(r.book) = BookLen(book)
           /\ \A f \in stored : Returns(GetItem(r.book, f.tr), f.amt)
           /\ Iterate(r.book) = it

\* the page of the root a transaction is filed under
RootPage(b, transaction) == b.pages[page_index(signature(transaction)[1])]

\* C14: when the root page of two stored transactions is a nested book that
\* holds just these two, deleting one of them leaves the other as a tuple
\* directly on that root page, with no nested book in between.
C14_CascadingCollapse ==
    \A e1, e2 \in Entries(book) :
        LET page == RootPage(book, e1.tr)
        IN (/\ e1.tr # e2.tr
            /\ page.kind = "ProcessingBook"
            /\ Entries(page) = {e1, e2})
           => LET r == DelItem(book, e1.tr)
              IN /\ r.exc = "none"
                 /\ RootPage(r.book, e2.tr) = e2

----------------------------------------------------------------------------
(* Counts, levels and the frame of the calls on a book *)

\* C25: when the page a set arrives at in the root holds a nested book, the
\* set returns a true value exactly when the transaction was not stored, and
\* the root's total_count goes up by 1 in that case and stays as it was
\* otherwise, whatever the amount.
C25_NestedSetReportsNewKey ==
    LET stored == StoredKeys(book)
    IN \A k \in Transactions : \A v \in Amounts :
        LET r == SetItem(book, k, v)
        IN (RootPage(book, k).kind = "ProcessingBook" /\ r.exc = "none") =>
              /\ Truthy(r.ret) = (k \notin stored)
              /\ r.book.total_count
                    = book.total_count + (IF k \notin stored THEN 1 ELSE 0)

\* C26: every nested book has the level of the book holding it plus 1, and
\* the transactions stored below a book of level d have the same first d
\* characters of the signature.
C26_LevelsFollowNesting ==
    \A n \in Books(book) :
        /\ \A i \in BookPages(n) : n.pages[i].level = n.level + 1
        /\ \A e, f \in Entries(n) :
              \A j \in 1..n.level : signature(e.tr)[j] = signature(f.tr)[j]

C29_SetKeepsOthers ==
    LET stored == Entries(book)
    IN \A k \in Transactions : \A v \in Amounts :
        LET r == SetItem(book, k, v)
        IN \A e \in stored :
              e.tr # k => Returns(GetItem(r.book, e.tr), e.amt)

\* C29 witness: a set meets the tuple of another transaction and moves it
\* into a new nested book, where it keeps an amount other than the one set
C29_Witness ==
    \E k \in Transactions : \E v \in Amounts :
        LET page == RootPage(book, k)
            r == SetItem(book, k, v)
        IN /\ page.kind = "tuple" /\ page.tr # k /\ page.amt # v
           /\ r.exc = "none"
           /\ RootPage(r.book, k).kind = "ProcessingBook"
           /\ Returns(GetItem(r.book, page.tr), page.amt)

\* the pages of a book without its counts: None, a tuple, or the pages of
\* the nested book with its level
RECURSIVE Shape(_)
Shape(b) ==
    [i \in PageRange |->
        IF b.pages[i].kind = "ProcessingBook"
        THEN [kind |-> "ProcessingBook", level |-> b.pages[i].level,
              pages |-> Shape(b.pages[i])]
        ELSE b.pages[i]]

RECURSIVE InsertAll(_, _)
\* the book after the tuples of E are set one by one, in the order of the
\* transactions' ids
InsertAll(b, E) ==
    IF E = {} THEN b
    ELSE LET e == CHOOSE e \in E : \A f \in E : e.tr <= f.tr
         IN InsertAll(SetItem(b, e.tr, e.amt).book, E \ {e})

\* C27: whatever the order in which transactions with distinct signatures
\* were set on an empty book, the book has the pages (tuples and nesting of
\* books) and iteration yields the sequence that setting them in the order
\* of their ids gives; so any two orders give the same pages and sequence.
C27_InsertionOrderIndependent ==
    LET stored == Entries(book)
        inOrder == InsertAll(ProcessingBook(0), stored)
    IN /\ Cardinality(stored) = steps
       /\ Shape(book) = Shape(inOrder)
       /\ Iterate(book) = Iterate(inOrder)

\* C27 witness: four transactions were set, in another order than that of
\* their ids (the counts differ from those the order of the ids gives), and
\* books are nested two deep
C27_Witness ==
    /\ Cardinality(Entries(book)) = 4
    /\ \E n \in NestedBooks(book) : n.level >= 2
    /\ book # InsertAll(ProcessingBook(0), Entries(book))

----------------------------------------------------------------------------
(* Properties of ProcessingLine *)

\* the transactions still held by the line
Remaining(self) ==
    Len(self.before_stack) + Len(self.after_stack)
      + (IF self.critical_transaction # PyNone THEN 1 ELSE 0)

\* the positions of yielded holding added transactions of the before side
\* (timestamp <= the critical timestamp) and of the after side
BeforePositions ==
    {i \in 1..Len(yielded) :
        yielded[i] # critical /\ yielded[i].timestamp <= critical.timestamp}

AfterPositions ==
    {i \in 1..Len(yielded) :
        yielded[i] # critical /\ yielded[i].timestamp > critical.timestamp}

CriticalPositions == {i \in 1..Len(yielded) : yielded[i] = critical}

Range(seq) == {seq[i] : i \in 1..Len(seq)}

\* C15: once iter(line) returned an iterator, add_transaction and iter(line)
\* raise RuntimeError and leave the line as it is, at every later point, and
\* the iterator still holds every transaction it has not returned yet.
C15_LockedOnceIterated ==
    iterator =>
        /\ line.locked
        /\ LineIter(line).exc = "RuntimeError"
        /\ LineIter(line).line = line
        /\ \A timestamp \in Timestamps :
              LET r == add_transaction(line, make_tx(Len(additions) + 1, timestamp))
              IN r.exc = "RuntimeError" /\ r.line = line
        /\ Len(yielded) + Remaining(line) = Len(additions) + 1

\* C15 witness: a call raised RuntimeError while the iterator was partly
\* consumed, and the next call on the iterator returns a transaction
C15_Witness ==
    /\ iterator
    /\ raised = "RuntimeError"
    /\ Len(additions) >= 1
    /\ Len(yielded) >= 1
    /\ IteratorNext(line, signatures).exc = "none"

\* C16: iteration yields the added transactions and the critical one, each
\* once (n + 1 items for n adds when StopIteration is raised); the added
\* transactions with timestamp <= the critical timestamp come before the
\* critical transaction and those with a greater timestamp after it.
C16_OrderAroundCritical ==
    /\ Cardinality(Range(yielded)) = Len(yielded)
    /\ Range(yielded) \subseteq Range(additions) \cup {critical}
    /\ raised = "StopIteration" => Len(yielded) = Len(additions) + 1
    /\ \A c \in CriticalPositions :
          /\ \A i \in BeforePositions : i < c
          /\ \A i \in AfterPositions : i > c
          /\ \A t \in Range(additions) :
                t.timestamp <= critical.timestamp => t \in Range(yielded)
    /\ AfterPositions # {} => CriticalPositions # {}

\* C16 witness: a full iteration over transactions with a smaller, the same
\* and a greater timestamp than the critical one
C16_Witness ==
    /\ raised = "StopIteration"
    /\ Len(yielded) = Len(additions) + 1
    /\ \E i, j \in BeforePositions :
          /\ yielded[i].timestamp < critical.timestamp
          /\ yielded[j].timestamp = critical.timestamp
    /\ AfterPositions # {}

\* C17: the transactions with timestamp greater than the critical timestamp
\* are yielded in reverse order of their addition, whatever their timestamps.
C17_AfterSideReverseOfAddition ==
    \A i, j \in AfterPositions : i < j => yielded[i].id > yielded[j].id

\* C17 witness: three transactions of the after side were yielded, their
\* timestamps going up and then down
C17_Witness ==
    \E i, j, k \in AfterPositions :
        /\ i < j /\ j < k
        /\ yielded[i].timestamp < yielded[j].timestamp
        /\ yielded[j].timestamp > yielded[k].timestamp

\* C18: the transactions with timestamp <= the critical timestamp are
\* yielded in non-decreasing order of timestamp, the closest to the critical
\* timestamp last (80, 90, critical).
C18_BeforeSideAscending ==
    \A i, j \in BeforePositions :
        i < j => yielded[i].timestamp <= yielded[j].timestamp

C20_SignedWhenYielded ==
    /\ \A t \in Range(yielded) : signatures[t.id] # PyNone
    /\ \A t \in (Range(additions) \cup {critical}) \ Range(yielded) :
          signatures[t.id] \in {PyNone, Preset(t.id)}

\* C20 witness: the iterator returned a transaction that was unsigned when
\* added and is signed now, while another added transaction and the
\* critical one, not returned yet, are still unsigned
C20_Witness ==
    /\ \E t \in Range(yielded) : signatures[t.id] = sign(t)
    /\ \E t \in Range(additions) \ Range(yielded) : signatures[t.id] = PyNone
    /\ critical \notin Range(yielded) /\ signatures[critical.id] = PyNone

\* C30: while the line is not locked, the before stack holds exactly the
\* added transactions with timestamp <= the critical timestamp, each once,
\* with timestamps non-decreasing from bottom to top.
C30_BeforeStackSorted ==
    ~line.locked =>
        LET before_stack == line.before_stack
        IN /\ Range(before_stack)
                = {t \in Range(additions) : t.timestamp <= critical.timestamp}
           /\ Cardinality(Range(before_stack)) = Len(before_stack)
           /\ \A i, j \in 1..Len(before_stack) :
                 i < j => before_stack[i].timestamp <= before_stack[j].timestamp

\* C30 witness: the last added transaction went below two others, which
\* were moved to the buffer and put back
C30_Witness ==
    /\ ~line.locked
    /\ Len(line.before_stack) >= 3
    /\ line.before_stack[Len(line.before_stack) - 2].id = Len(additions)

\* C31: added transactions with the same timestamp, not greater than the
\* critical timestamp, are yielded in the order in which they were added:
\* the one added later is yielded closer to the critical transaction.
C31_EqualTimestampsInOrderAdded ==
    \A i, j \in BeforePositions :
        (i < j /\ yielded[i].timestamp = yielded[j].timestamp)
            => yielded[i].id < yielded[j].id

\* C31 witness: two transactions added with the critical timestamp were
\* yielded, and then the critical transaction (E1, E2, critical)
C31_Witness ==
    \E i, j \in BeforePositions :
        /\ i < j
        /\ yielded[i].timestamp = critical.timestamp
        /\ yielded[j].timestamp = critical.timestamp
        /\ CriticalPositions = {j + 1}

\* the iterator has returned everything: both stacks are empty and the
\* reference to the critical transaction is cleared
Exhausted ==
    /\ iterator
    /\ line.before_stack = << >>
    /\ line.after_stack = << >>
    /\ line.critical_transaction = PyNone

\* C33: when next() has raised StopIteration the iterator is exhausted, and
\* from then on every call leaves it exhausted, next() raises StopIteration
\* again, nothing more is yielded and no transaction is yielded twice.
C33_ExhaustedStaysExhausted ==
    [][/\ raised' = "StopIteration" => Exhausted'
       /\ Exhausted =>
             /\ Exhausted'
             /\ yielded' = yielded
             /\ signatures' = signatures
             /\ IteratorNext(line', signatures').exc = "StopIteration"
             /\ IteratorNext(line', signatures').line = line'
             /\ Cardinality(Range(yielded')) = Len(yielded')]_vars

\* C33 witness: StopIteration was raised after the critical transaction and
\* two added ones, one of each side, were yielded
C33_Witness ==
    /\ raised = "StopIteration"
    /\ Exhausted
    /\ BeforePositions # {} /\ AfterPositions # {}

\* C34: when the transaction that next() returns carries a signature, the
\* call leaves every signature as it is; next() changes a signature only of
\* the transaction it returns and only when that signature is None.
C34_SignaturesPreserved ==
    iterator =>
        LET r == IteratorNext(line, signatures)
        IN /\ (r.exc = "none" /\ signatures[r.ret.id] # PyNone)
                => r.signatures = signatures
           /\ \A id \in TransactionIds :
                 r.signatures[id] # signatures[id]
                    => r.exc = "none" /\ id = r.ret.id /\ signatures[id] = PyNone
           /\ \A t \in Range(yielded) :
                 signatures[t.id] \in {Preset(t.id), sign(t)}

\* C34 witness: the iterator returned a transaction with the signature the
\* client gave it, and the next one it returns carries one too
C34_Witness ==
    /\ iterator
    /\ \E t \in Range(yielded) : signatures[t.id] = Preset(t.id)
    /\ LET r == IteratorNext(line, signatures)
       IN r.exc = "none" /\ signatures[r.ret.id] = Preset(r.ret.id)

----------------------------------------------------------------------------
(* Properties of Transaction.sign *)

\* the characters of a signature
SignatureCharacters == {DIGITS[i] : i \in 1..Len(DIGITS)}

\* the transactions the client has signed
Signed == {id \in Signers : signatures[id] # PyNone}

\* C21: a signature that sign() assigned is a string of exactly 36
\* characters, each a lowercase letter or a digit
C21_SignatureFormat ==
    \A id \in Signed :
        /\ signatures[id].t = "str"
        /\ Len(signatures[id].s) = SIGNATURE_LENGTH
        /\ \A i \in 1..Len(signatures[id].s) : signatures[id].s[i] \in SignatureCharacters

\* a signed transaction whose hash has fewer than 36 digits, so that the
\* signature was padded with "0" on the left
C21_Witness ==
    \E id \in Signed :
        /\ signatures[id].s[1] = "0"
        /\ signatures[id].s[2] # "0"

----------------------------------------------------------------------------
(* Properties of FraudDetection.detect_by_blocks *)

\* the complete blocks of S characters of a signature are at 1..NumBlocks
NumBlocks(sig, S) == Len(sig) \div S

\* the complete block number i of a signature
Block(sig, S, i) == SubSeq(sig, (i - 1) * S + 1, i * S)

\* how many complete blocks of the signature are the block b
Occurrences(sig, S, b) ==
    Cardinality({i \in 1..NumBlocks(sig, S) : Block(sig, S, i) = b})

\* the trailing incomplete block
Trailing(sig, S) == SubSeq(sig, NumBlocks(sig, S) * S + 1, Len(sig))

\* two signatures have the same multiset of complete blocks and the same
\* trailing incomplete block
SameGroup(a, b, S) ==
    /\ \A i \in 1..NumBlocks(a, S) :
          Occurrences(a, S, Block(a, S, i)) = Occurrences(b, S, Block(a, S, i))
    /\ \A i \in 1..NumBlocks(b, S) :
          Occurrences(a, S, Block(b, S, i)) = Occurrences(b, S, Block(b, S, i))
    /\ Trailing(a, S) = Trailing(b, S)

\* the groups of the transactions for the block size S, as sets of ids
GroupsOf(S) ==
    {{j \in DOMAIN transactions : SameGroup(signatures[i].s, signatures[j].s, S)} :
        i \in DOMAIN transactions}

RECURSIVE ProductOfSizes(_)
ProductOfSizes(groups) ==
    IF groups = {} THEN 1
    ELSE LET g == CHOOSE g \in groups : TRUE
         IN Cardinality(g) * ProductOfSizes(groups \ {g})

\* the score of the block size S
Score(S) == ProductOfSizes(GroupsOf(S))

\* the signatures of the example: abc, acb, xyz, bac, zyx, abb
ExampleSignatures ==
    << <<"a", "b", "c">>, <<"a", "c", "b">>, <<"x", "y", "z">>,
       <<"b", "a", "c">>, <<"z", "y", "x">>, <<"a", "b", "b">> >>

\* what detect_by_blocks returns for the example
ExampleResult ==
    detect_by_blocks(Suspects(Len(ExampleSignatures)),
                     [id \in 1..Len(ExampleSignatures) |-> PyStr(ExampleSignatures[id])])

----------------------------------------------------------------------------
(* Properties of FraudDetection.rectify *)

\* the hash values of a function, in the order in which rectify inserts them
InsertedHashes(func) ==
    sort_array([i \in 1..Len(transactions) |-> func[transactions[i].id]])

\* the size of the table of a function
TableSize(func) == MaxOf(InsertedHashes(func)) + 1

RECURSIVE SteppedOver(_, _, _, _)
\* the occupied slots stepped over from slot on until a free slot is
\* found or every slot was stepped over
SteppedOver(slots, size, slot, count) ==
    IF slot \in slots /\ count < size
    THEN SteppedOver(slots, size, (slot + 1) % size, count + 1)
    ELSE count

RECURSIVE LinearProbing(_, _, _)
\* a linear-probing table of the given size after the first n hash values
\* were inserted: its occupied slots and the longest probe chain
LinearProbing(hashes, size, n) ==
    IF n = 0 THEN [slots |-> {}, mpcl |-> 0]
    ELSE LET t == LinearProbing(hashes, size, n - 1)
             count == SteppedOver(t.slots, size, hashes[n], 0)
         IN [slots |-> IF count < size THEN t.slots \cup {(hashes[n] + count) % size}
                       ELSE t.slots,
             mpcl |-> Max(t.mpcl, count)]

\* the maximum probe chain length of a function
MPCL(func) ==
    LinearProbing(InsertedHashes(func), TableSize(func), Len(transactions)).mpcl

\* C24: rectify returns a function and the least maximum probe chain length
\* of the functions, which that function has; the maximum probe chain
\* length is that of linear probing in a table of size max(hash) + 1 and is
\* the table size when there are more transactions than slots
C24_RectifyReturnsMinMPCL ==
    (result # PyNone /\ transactions # << >>) =>
        /\ result[1] \in DOMAIN functions
        /\ result[2] = PyInt(MPCL(functions[result[1]]))
        /\ \A k \in DOMAIN functions :
              /\ result[2].n <= MPCL(functions[k])
              /\ Len(transactions) > TableSize(functions[k])
                    => MPCL(functions[k]) = TableSize(functions[k])

\* every transaction has the hash value 0
AllZero(func) == \A i \in 1..Len(transactions) : func[transactions[i].id] = 0

\* C32: for every function the probing loop is left after at most as many
\* rounds as the table has slots, for each inserted hash: the maximum probe
\* chain length rectify computes is an integer from 0 to the table size
\* max(hash) + 1, and it is 1 when all hashes are 0 and there are at least
\* two transactions; the length rectify returns is one of these.
C32_ProbeBounded ==
    transactions # << >> =>
        /\ \A k \in DOMAIN functions :
              LET max_probe == MaxProbe(transactions, functions[k])
              IN /\ max_probe \in 0..TableSize(functions[k])
                 /\ (AllZero(functions[k]) /\ Len(transactions) >= 2) => max_probe = 1
        /\ result # PyNone =>
              /\ result[1] \in DOMAIN functions
              /\ result[2] = PyInt(MaxProbe(transactions, functions[result[1]]))
              /\ \A k \in DOMAIN functions :
                    result[2].n <= MaxProbe(transactions, functions[k])

\* C32 witness: rectify returned for a function with all hashes 0 and for
\* another whose table is full
C32_Witness ==
    /\ result # PyNone
    /\ Len(transactions) >= 2
    /\ Len(functions) = 2
    /\ AllZero(functions[1])
    /\ MaxProbe(transactions, functions[2]) = TableSize(functions[2])
    /\ result = <<1, PyInt(1)>>

----------------------------------------------------------------------------
(* The defaults of detect_by_blocks *)

\* the block sizes tried for the transactions handed over
TriedSizes == IF transactions = << >> THEN {} ELSE 1..Len(signatures[1].s)

\* C35: detect_by_blocks returns (1, 1) when there are no transactions and
\* when no block size puts two transactions into one group; of the block
\* sizes with the maximum score it returns the smallest.
C35_DefaultsAndSmallestSize ==
    result # PyNone =>
        /\ transactions = << >> => result = <<1, 1>>
        /\ (\A S \in TriedSizes : \A g \in GroupsOf(S) : Cardinality(g) = 1)
              => result = <<1, 1>>
        /\ \A S \in TriedSizes : Score(S) = result[2] => result[1] <= S

\* C35 witness: two block sizes have the maximum score, which is more than
\* 1, and the smaller one was returned
C35_Witness ==
    /\ result # PyNone
    /\ result[2] > 1
    /\ \E S \in TriedSizes : S > result[1] /\ Score(S) = result[2]

====
